---------------------------- MODULE Spec2Model ----------------------------
(***************************************************************************)
(* RingBuffer (src/AudioMirror/RingBuffer.cpp, RingBuffer.h): a fixed      *)
(* capacity circular byte buffer with two linear 64-bit position counters, *)
(* overwrite-oldest on overflow and a fill/drain hysteresis gate.          *)
(*                                                                         *)
(* Spec      every member function runs to completion before the next one  *)
(*           starts (calls made one at a time).                            *)
(* ConcSpec  a producer context calls Put while a consumer context calls   *)
(*           Take on the same initialised buffer; each step is one access  *)
(*           to the shared fields or one RtlCopyMemory run.  Take holds    *)
(*           m_BufferLock from line 100 to its return, Put never takes it. *)
(* AllocSpec the calls made one at a time, the allocation of the storage   *)
(*           in Init succeeding or failing.                                *)
(* FairSpec  the two contexts of ConcSpec, each scheduled fairly.          *)
(***************************************************************************)
EXTENDS Integers, Sequences, FiniteSets, TLC

(***************************************************************************)
(* Bounds of the model.                                                    *)
(***************************************************************************)
\* largest bufferSize handed to Init
MaxCap == 3
\* no Put is accepted any more once the write position would pass MaxPos
MaxPos == 4
\* the same two bounds for the two-context specification
ConcMaxCap == 2
ConcMaxPos == 3

\* values of a BYTE; 0 is also what RtlZeroMemory writes
Byte == {0, 1}
\* largest count handed to Put: one more than the largest capacity
MaxCount == MaxCap + 1

(***************************************************************************)
(* ULONGLONG arithmetic.  The positions are unsigned 64-bit; the model     *)
(* keeps the wrap of an unsigned subtraction but scales the modulus to     *)
(* 2^28 so that every value fits the model checker's integers.  All        *)
(* positions, counts and capacities of the model are far below it, and     *)
(* 2^28 and 2^64 leave the same remainder modulo every capacity up to 8    *)
(* (2^36 is 1 modulo 3, 5 and 7), so a wrapped position lands on the same  *)
(* storage offset as in the code.                                          *)
(***************************************************************************)
ULONGLONG_MOD == 2^28
Mod64(x) == x % ULONGLONG_MOD

Min(a, b) == IF a <= b THEN a ELSE b

NULL == <<>>

STATUS_SUCCESS == "STATUS_SUCCESS"
STATUS_BUFFER_TOO_SMALL == "STATUS_BUFFER_TOO_SMALL"
STATUS_BUFFER_OVERFLOW == "STATUS_BUFFER_OVERFLOW"
STATUS_DEVICE_NOT_READY == "STATUS_DEVICE_NOT_READY"
STATUS_INSUFFICIENT_RESOURCES == "STATUS_INSUFFICIENT_RESOURCES"
\* not a status: the call dereferenced m_Buffer = NULL and did not return
BUGCHECK == "BUGCHECK"

VARIABLES
    m_Buffer,                      \* NULL or the storage, indexed 0 .. m_BufferLength-1
    m_BufferLength,
    m_IsFilling,
    m_LinearBufferReadPosition,
    m_LinearBufferWritePosition,
    ret,                           \* the call that returned last: arguments and results
    putStream,                     \* history: the bytes handed to accepted Puts since Init/Clear
    takenStream,                   \* history: the bytes Take copied to its targets since Init/Clear
    m_BufferLock,                  \* the spin lock: "free" or "held"
    pcPut, putFrame,               \* the producer context: the line Put is at, and its locals
    pcTake, takeFrame,             \* the consumer context: the line Take is at, and its locals
    hist                           \* history: the calls that overlap, and the fields before them

bufVars == <<m_Buffer, m_BufferLength, m_IsFilling,
             m_LinearBufferReadPosition, m_LinearBufferWritePosition>>
vars == <<m_Buffer, m_BufferLength, m_IsFilling,
          m_LinearBufferReadPosition, m_LinearBufferWritePosition,
          ret, putStream, takenStream,
          m_BufferLock, pcPut, putFrame, pcTake, takeFrame, hist>>
concVars == <<m_BufferLock, pcPut, putFrame, pcTake, takeFrame, hist>>

\* the object's fields as one value
This ==
    [m_Buffer |-> m_Buffer,
     m_BufferLength |-> m_BufferLength,
     m_IsFilling |-> m_IsFilling,
     m_LinearBufferReadPosition |-> m_LinearBufferReadPosition,
     m_LinearBufferWritePosition |-> m_LinearBufferWritePosition]

\* m_LinearBufferWritePosition - m_LinearBufferReadPosition, as the code computes it
Unread(b) == Mod64(b.m_LinearBufferWritePosition - b.m_LinearBufferReadPosition)

\* RtlCopyMemory(m_Buffer + offset, src, n): src is a sequence, its first n bytes are copied
RtlCopyMemory(buf, offset, src, n) ==
    [i \in DOMAIN buf |->
        IF offset <= i /\ i < offset + n THEN src[i - offset + 1] ELSE buf[i]]

\* the n bytes of storage starting at offset (a run that does not pass the end)
ReadRun(buf, offset, n) == [k \in 1..n |-> buf[offset + k - 1]]

(***************************************************************************)
(* RingBuffer::RingBuffer                                                  *)
(***************************************************************************)
Constructed ==
    [m_Buffer |-> NULL,
     m_BufferLength |-> 0,
     m_IsFilling |-> TRUE,
     m_LinearBufferReadPosition |-> 0,
     m_LinearBufferWritePosition |-> 0]

(***************************************************************************)
(* RingBuffer::Init, the allocation succeeding.  ExAllocatePoolWithTag     *)
(* does not initialise the pool memory: fresh is any content.              *)
(***************************************************************************)
\* a variant of Init that keeps the positions of the buffer it replaces
InitOp_KeepsPositions(b, bufferSize, fresh) ==
    [m_Buffer |-> fresh,
     m_BufferLength |-> bufferSize,
     m_IsFilling |-> TRUE,
     m_LinearBufferReadPosition |-> b.m_LinearBufferReadPosition,
     m_LinearBufferWritePosition |-> b.m_LinearBufferWritePosition]

\* lines 30-63 with the allocation of line 48 succeeding
InitOp(b, bufferSize, fresh) ==
    [m_Buffer |-> fresh,
     m_BufferLength |-> bufferSize,
     m_IsFilling |-> TRUE,
     m_LinearBufferReadPosition |-> 0,
     m_LinearBufferWritePosition |-> 0]

(***************************************************************************)
(* RingBuffer::Put                                                         *)
(***************************************************************************)
\* a variant of the rejection test that compares against twice the capacity
PutTooSmall_Doubled(count, length) == count > 2 * length

\* a variant of the rejection test that also rejects a count equal to the capacity
PutTooSmall_AtCapacity(count, length) == count >= length

\* line 67
PutTooSmall(count, length) == count > length

\* line 72
PutOverruns(b, count) ==
    Mod64(Mod64(b.m_LinearBufferWritePosition + count) - b.m_LinearBufferReadPosition)
        > b.m_BufferLength

\* a variant of the overrun correction without the + 1
OverrunReadPosition_NoPlusOne(b, count) ==
    Mod64(Mod64(b.m_LinearBufferWritePosition + count) - b.m_BufferLength)

\* line 75
OverrunReadPosition(b, count) ==
    Mod64(Mod64(b.m_LinearBufferWritePosition + count) - b.m_BufferLength + 1)

\* one iteration of the copy loop, lines 82-86; the source pointer pBytes is
\* the same in every iteration
PutRun(f, pBytes, length) ==
    LET runWrite == Min(f.count, length - f.bufferOffset)
    IN  [buf |-> RtlCopyMemory(f.buf, f.bufferOffset, pBytes, runWrite),
         bufferOffset |-> (f.bufferOffset + runWrite) % length,
         count |-> f.count - runWrite,
         bytesWritten |-> f.bytesWritten + runWrite]

\* the copy loop, lines 80-87
RECURSIVE PutLoop(_, _, _)
PutLoop(f, pBytes, length) ==
    IF f.count > 0 THEN PutLoop(PutRun(f, pBytes, length), pBytes, length) ELSE f

\* a variant of the fill test that opens the gate at exactly half the capacity
PutFilled_AtHalf(b) == b.m_IsFilling /\ Unread(b) >= (b.m_BufferLength \div 2)

\* line 90
PutFilled(b) == b.m_IsFilling /\ Unread(b) > (b.m_BufferLength \div 2)

PutOp(b, pBytes, count) ==
    IF PutTooSmall(count, b.m_BufferLength)
    THEN [b |-> b, status |-> STATUS_BUFFER_TOO_SMALL]
    ELSE IF count = 0
    THEN [b |-> b, status |-> STATUS_SUCCESS]
    ELSE
      LET over == PutOverruns(b, count)
          b1 == IF over
                THEN [b EXCEPT !.m_LinearBufferReadPosition = OverrunReadPosition(b, count)]
                ELSE b
          f == PutLoop([buf |-> b1.m_Buffer,
                        bufferOffset |-> b1.m_LinearBufferWritePosition % b1.m_BufferLength,
                        count |-> count,
                        bytesWritten |-> 0],
                       pBytes, b1.m_BufferLength)
          b2 == [b1 EXCEPT !.m_Buffer = f.buf,
                           !.m_LinearBufferWritePosition = Mod64(@ + f.bytesWritten)]
          b3 == IF PutFilled(b2) THEN [b2 EXCEPT !.m_IsFilling = FALSE] ELSE b2
      IN  [b |-> b3,
           status |-> IF over THEN STATUS_BUFFER_OVERFLOW ELSE STATUS_SUCCESS]

(***************************************************************************)
(* RingBuffer::Take                                                        *)
(***************************************************************************)
\* a variant of the gate test that looks at the unread count instead of the flag
TakeGateClosed_WhenEmpty(b) == Unread(b) = 0

\* line 102
TakeGateClosed(b) == b.m_IsFilling

\* a variant of the clamp that limits the request to the capacity
TakeClamp_ToCapacity(b, count) == Min(count, b.m_BufferLength)

\* line 112
TakeClamp(b, count) == Min(count, Unread(b))

\* a variant of the read offset that starts at the write position
TakeOffset_AtWrite(b) == b.m_LinearBufferWritePosition % b.m_BufferLength

\* line 113
TakeOffset(b) == b.m_LinearBufferReadPosition % b.m_BufferLength

\* one iteration of the copy loop, lines 117-121; pTarget + bytesRead is the
\* end of what has been copied so far
TakeRun(f, buf, length) ==
    LET runWrite == Min(f.count, length - f.bufferOffset)
    IN  [target |-> f.target \o ReadRun(buf, f.bufferOffset, runWrite),
         bufferOffset |-> (f.bufferOffset + runWrite) % length,
         count |-> f.count - runWrite,
         bytesRead |-> f.bytesRead + runWrite]

\* the copy loop, lines 115-122
RECURSIVE TakeLoop(_, _, _)
TakeLoop(f, buf, length) ==
    IF f.count > 0 THEN TakeLoop(TakeRun(f, buf, length), buf, length) ELSE f

\* a variant of the drain test that compares against the capacity
TakeEmptied_AtCapacity(b) == Unread(b) = b.m_BufferLength

\* line 128
TakeEmptied(b) == Unread(b) = 0

\* readCount is <<n>> when n was stored through the pointer, <<>> when the
\* caller passes readCount = NULL
TakeOp(b, count, wantCount) ==
    IF TakeGateClosed(b)
    THEN [b |-> b, status |-> STATUS_DEVICE_NOT_READY,
          readCount |-> IF wantCount THEN <<0>> ELSE <<>>, target |-> <<>>]
    ELSE
      LET f == TakeLoop([target |-> <<>>,
                         bufferOffset |-> TakeOffset(b),
                         count |-> TakeClamp(b, count),
                         bytesRead |-> 0],
                        b.m_Buffer, b.m_BufferLength)
          b1 == [b EXCEPT !.m_LinearBufferReadPosition = Mod64(@ + f.bytesRead)]
          b2 == IF TakeEmptied(b1) THEN [b1 EXCEPT !.m_IsFilling = TRUE] ELSE b1
      IN  [b |-> b2, status |-> STATUS_SUCCESS,
           readCount |-> IF wantCount THEN <<f.bytesRead>> ELSE <<>>,
           target |-> f.target]

(***************************************************************************)
(* RingBuffer::GetSize, RingBuffer::GetAvailableBytes, RingBuffer::Clear   *)
(***************************************************************************)
GetSize(b) == b.m_BufferLength

GetAvailableBytes(b) == IF b.m_IsFilling THEN 0 ELSE Unread(b)

\* a variant of Clear that leaves the gate as it is
ClearOp_KeepsGate(b) ==
    [b EXCEPT !.m_Buffer = [i \in DOMAIN b.m_Buffer |-> 0],
              !.m_LinearBufferReadPosition = 0,
              !.m_LinearBufferWritePosition = 0]

\* lines 150-160
ClearOp(b) ==
    [b EXCEPT !.m_Buffer = [i \in DOMAIN b.m_Buffer |-> 0],
              !.m_IsFilling = TRUE,
              !.m_LinearBufferReadPosition = 0,
              !.m_LinearBufferWritePosition = 0]

(***************************************************************************)
(* The calls, made one at a time.                                          *)
(***************************************************************************)
Store(b) ==
    /\ m_Buffer' = b.m_Buffer
    /\ m_BufferLength' = b.m_BufferLength
    /\ m_IsFilling' = b.m_IsFilling
    /\ m_LinearBufferReadPosition' = b.m_LinearBufferReadPosition
    /\ m_LinearBufferWritePosition' = b.m_LinearBufferWritePosition

Returned(op, count, pBytes, status, readCount, target) ==
    [op |-> op, count |-> count, pBytes |-> pBytes, status |-> status,
     readCount |-> readCount, target |-> target]

\* the buffers handed to Put on a buffer of the given capacity: every content
\* of every length up to the capacity, and one buffer of every greater length
PutArgs(length) ==
    (UNION {[1..n -> Byte] : n \in 0..length})
        \cup {[k \in 1..n |-> 0] : n \in (length + 1)..MaxCount}

\* the counts handed to Take on a buffer of the given capacity
TakeArgs(length) == 0..(length + 1)

\* the locals of a context that is in no call
NoFrame == [pBytes |-> <<>>, request |-> 0, wantCount |-> FALSE, count |-> 0,
            status |-> STATUS_SUCCESS, bufferOffset |-> 0, bytes |-> 0,
            target |-> <<>>, pos |-> 0]

\* no overlapping calls are being followed
Untracked == [on |-> TRUE, ok |-> FALSE, base |-> Constructed, put |-> <<>>, take |-> <<>>]

\* the history variables are not kept at all
Unrecorded == [Untracked EXCEPT !.on = FALSE]

Init ==
    /\ m_Buffer = Constructed.m_Buffer
    /\ m_BufferLength = Constructed.m_BufferLength
    /\ m_IsFilling = Constructed.m_IsFilling
    /\ m_LinearBufferReadPosition = Constructed.m_LinearBufferReadPosition
    /\ m_LinearBufferWritePosition = Constructed.m_LinearBufferWritePosition
    /\ ret = Returned("RingBuffer", 0, <<>>, STATUS_SUCCESS, <<>>, <<>>)
    /\ putStream = <<>>
    /\ takenStream = <<>>
    /\ m_BufferLock = "free"
    /\ pcPut = "idle" /\ putFrame = NoFrame
    /\ pcTake = "idle" /\ takeFrame = NoFrame
    /\ hist = Untracked

CallInit ==
    \E bufferSize \in 1..MaxCap :
      \E fresh \in [0..bufferSize-1 -> Byte] :
        /\ Store(InitOp(This, bufferSize, fresh))
        /\ ret' = Returned("Init", bufferSize, <<>>, STATUS_SUCCESS, <<>>, <<>>)
        /\ putStream' = <<>>
        /\ takenStream' = <<>>
        /\ UNCHANGED concVars

CallPut ==
    \E pBytes \in PutArgs(m_BufferLength) :
      LET count == Len(pBytes)
          r == PutOp(This, pBytes, count)
      IN  /\ PutTooSmall(count, m_BufferLength)
               \/ m_LinearBufferWritePosition + count <= MaxPos
          /\ Store(r.b)
          /\ ret' = Returned("Put", count, pBytes, r.status, <<>>, <<>>)
          /\ putStream' = IF r.status = STATUS_BUFFER_TOO_SMALL
                          THEN putStream ELSE putStream \o pBytes
          /\ UNCHANGED <<takenStream, concVars>>

\* Take and Clear acquire m_BufferLock, which Init allocates: they are called
\* on an initialised buffer only
CallTake ==
    \E count \in TakeArgs(m_BufferLength), wantCount \in BOOLEAN :
      LET r == TakeOp(This, count, wantCount)
      IN  /\ m_Buffer # NULL
          /\ Store(r.b)
          /\ ret' = Returned("Take", count, <<>>, r.status, r.readCount, r.target)
          /\ takenStream' = takenStream \o r.target
          /\ UNCHANGED <<putStream, concVars>>

CallClear ==
    /\ m_Buffer # NULL
    /\ Store(ClearOp(This))
    /\ ret' = Returned("Clear", 0, <<>>, STATUS_SUCCESS, <<>>, <<>>)
    /\ putStream' = <<>>
    /\ takenStream' = <<>>
    /\ UNCHANGED concVars

Next == CallInit \/ CallPut \/ CallTake \/ CallClear

Spec == Init /\ [][Next]_vars

(***************************************************************************)
(* The calls, made one at a time, with ExAllocatePoolWithTag allowed to    *)
(* fail for the storage (AllocSpec).  It starts when the first Init has    *)
(* returned, with either outcome: m_BufferLock is allocated from then on.  *)
(* A call that reaches RtlCopyMemory or RtlZeroMemory with m_Buffer = NULL *)
(* accesses the first page of the address space, which is never mapped:    *)
(* the system stops with a bug check and no call follows.                  *)
(***************************************************************************)
\* lines 39-53 with the allocation of line 48 failing: the old storage is
\* freed, m_Buffer is NULL, and the return of line 52 comes before lines 54-57
InitFailOp(b) == [b EXCEPT !.m_Buffer = NULL]

\* Put reaches line 83
PutCopies(b, count) == ~PutTooSmall(count, b.m_BufferLength) /\ count > 0

\* Take reaches line 119
TakeCopies(b, count) == ~TakeGateClosed(b) /\ TakeClamp(b, count) > 0

\* line 154 writes m_BufferLength bytes
ClearZeroes(b) == b.m_BufferLength > 0

\* the call did not return
Halted == ret.status = BUGCHECK

AllocInit ==
    \E allocated \in BOOLEAN, bufferSize \in 1..MaxCap :
      \E fresh \in [0..bufferSize-1 -> Byte] :
        LET b == IF allocated THEN InitOp(Constructed, bufferSize, fresh)
                              ELSE InitFailOp(Constructed)
        IN  /\ m_Buffer = b.m_Buffer
            /\ m_BufferLength = b.m_BufferLength
            /\ m_IsFilling = b.m_IsFilling
            /\ m_LinearBufferReadPosition = b.m_LinearBufferReadPosition
            /\ m_LinearBufferWritePosition = b.m_LinearBufferWritePosition
            /\ ret = Returned("Init", bufferSize, <<>>,
                              IF allocated THEN STATUS_SUCCESS
                                           ELSE STATUS_INSUFFICIENT_RESOURCES,
                              <<>>, <<>>)
            /\ putStream = <<>>
            /\ takenStream = <<>>
            /\ m_BufferLock = "free"
            /\ pcPut = "idle" /\ putFrame = NoFrame
            /\ pcTake = "idle" /\ takeFrame = NoFrame
            /\ hist = Untracked

AllocInitSucceeds ==
    /\ ~Halted
    /\ CallInit

AllocInitFails ==
    \E bufferSize \in 1..MaxCap :
        /\ ~Halted
        /\ Store(InitFailOp(This))
        /\ ret' = Returned("Init", bufferSize, <<>>, STATUS_INSUFFICIENT_RESOURCES,
                           <<>>, <<>>)
        /\ UNCHANGED <<putStream, takenStream, concVars>>

AllocPut ==
    \E pBytes \in PutArgs(m_BufferLength) :
      LET count == Len(pBytes)
          r == PutOp(This, pBytes, count)
      IN  /\ ~Halted
          /\ PutTooSmall(count, m_BufferLength)
               \/ m_LinearBufferWritePosition + count <= MaxPos
          /\ IF m_Buffer = NULL /\ PutCopies(This, count)
             THEN /\ Store(IF PutOverruns(This, count)
                           THEN [This EXCEPT !.m_LinearBufferReadPosition =
                                                OverrunReadPosition(This, count)]
                           ELSE This)
                  /\ ret' = Returned("Put", count, pBytes, BUGCHECK, <<>>, <<>>)
                  /\ UNCHANGED putStream
             ELSE /\ Store(r.b)
                  /\ ret' = Returned("Put", count, pBytes, r.status, <<>>, <<>>)
                  /\ putStream' = IF r.status = STATUS_BUFFER_TOO_SMALL
                                  THEN putStream ELSE putStream \o pBytes
          /\ UNCHANGED <<takenStream, concVars>>

AllocTake ==
    \E count \in TakeArgs(m_BufferLength), wantCount \in BOOLEAN :
      LET r == TakeOp(This, count, wantCount)
      IN  /\ ~Halted
          /\ IF m_Buffer = NULL /\ TakeCopies(This, count)
             THEN /\ ret' = Returned("Take", count, <<>>, BUGCHECK, <<>>, <<>>)
                  /\ UNCHANGED <<bufVars, takenStream>>
             ELSE /\ Store(r.b)
                  /\ ret' = Returned("Take", count, <<>>, r.status, r.readCount,
                                     r.target)
                  /\ takenStream' = takenStream \o r.target
          /\ UNCHANGED <<putStream, concVars>>

AllocClear ==
    /\ ~Halted
    /\ IF m_Buffer = NULL /\ ClearZeroes(This)
       THEN /\ ret' = Returned("Clear", 0, <<>>, BUGCHECK, <<>>, <<>>)
            /\ UNCHANGED <<bufVars, putStream, takenStream>>
       ELSE /\ Store(ClearOp(This))
            /\ ret' = Returned("Clear", 0, <<>>, STATUS_SUCCESS, <<>>, <<>>)
            /\ putStream' = <<>>
            /\ takenStream' = <<>>
    /\ UNCHANGED concVars

AllocNext ==
    AllocInitSucceeds \/ AllocInitFails \/ AllocPut \/ AllocTake \/ AllocClear

AllocSpec == AllocInit /\ [][AllocNext]_vars

(***************************************************************************)
(* Two contexts (ConcSpec).  The producer context runs Put, the consumer   *)
(* context runs Take.  pcPut and pcTake name the source line the context   *)
(* is about to execute.  A call that starts while the other context is in  *)
(* no call starts a round: hist keeps the fields at that moment and the    *)
(* calls of the round, as long as each context makes at most one.          *)
(***************************************************************************)
HistCallPut(rec) ==
    IF ~hist.on THEN hist
    ELSE IF pcTake = "idle"
    THEN [on |-> TRUE, ok |-> TRUE, base |-> This, put |-> <<rec>>, take |-> <<>>]
    ELSE IF hist.ok /\ hist.put = <<>>
    THEN [hist EXCEPT !.put = <<rec>>]
    ELSE Untracked

HistCallTake(rec) ==
    IF ~hist.on THEN hist
    ELSE IF pcPut = "idle"
    THEN [on |-> TRUE, ok |-> TRUE, base |-> This, put |-> <<>>, take |-> <<rec>>]
    ELSE IF hist.ok /\ hist.take = <<>>
    THEN [hist EXCEPT !.take = <<rec>>]
    ELSE Untracked

PutRecord(pBytes, status) == [pBytes |-> pBytes, status |-> status]

TakeRecord(count, wantCount, status, readCount, target) ==
    [count |-> count, wantCount |-> wantCount, status |-> status,
     readCount |-> readCount, target |-> target]

HistReturnPut(status) ==
    IF hist.ok THEN [hist EXCEPT !.put = <<PutRecord(@[1].pBytes, status)>>] ELSE hist

HistReturnTake(status, readCount, target) ==
    IF hist.ok
    THEN [hist EXCEPT !.take =
            <<TakeRecord(@[1].count, @[1].wantCount, status, readCount, target)>>]
    ELSE hist

ConcInit ==
    \E bufferSize \in 1..ConcMaxCap :
      \E fresh \in [0..bufferSize-1 -> Byte] :
        /\ m_Buffer = InitOp(Constructed, bufferSize, fresh).m_Buffer
        /\ m_BufferLength = InitOp(Constructed, bufferSize, fresh).m_BufferLength
        /\ m_IsFilling = InitOp(Constructed, bufferSize, fresh).m_IsFilling
        /\ m_LinearBufferReadPosition =
             InitOp(Constructed, bufferSize, fresh).m_LinearBufferReadPosition
        /\ m_LinearBufferWritePosition =
             InitOp(Constructed, bufferSize, fresh).m_LinearBufferWritePosition
        /\ ret = Returned("Init", bufferSize, <<>>, STATUS_SUCCESS, <<>>, <<>>)
        /\ putStream = <<>>
        /\ takenStream = <<>>
        /\ m_BufferLock = "free"
        /\ pcPut = "idle" /\ putFrame = NoFrame
        /\ pcTake = "idle" /\ takeFrame = NoFrame
        /\ hist = Untracked

consumerVars == <<m_BufferLock, pcTake, takeFrame>>
producerVars == <<pcPut, putFrame>>

(* ------------------------------ Put ------------------------------------ *)
\* the results of the calls of ConcSpec are kept in hist, ret stays as it is
PutReturns(pBytes, status) ==
    /\ pcPut' = "idle"
    /\ putFrame' = NoFrame
    /\ UNCHANGED ret

\* the call, lines 65-70
PutCall ==
    \E pBytes \in PutArgs(m_BufferLength) :
      LET count == Len(pBytes)
      IN  /\ pcPut = "idle"
          /\ count <= m_BufferLength + 1
          /\ PutTooSmall(count, m_BufferLength)
               \/ m_LinearBufferWritePosition + count <= ConcMaxPos
          /\ IF PutTooSmall(count, m_BufferLength)
             THEN /\ PutReturns(pBytes, STATUS_BUFFER_TOO_SMALL)
                  /\ hist' = HistCallPut(PutRecord(pBytes, STATUS_BUFFER_TOO_SMALL))
                  /\ UNCHANGED putStream
             ELSE IF count = 0
             THEN /\ PutReturns(pBytes, STATUS_SUCCESS)
                  /\ hist' = HistCallPut(PutRecord(pBytes, STATUS_SUCCESS))
                  /\ UNCHANGED putStream
             ELSE /\ pcPut' = "L72"
                  /\ putFrame' = [NoFrame EXCEPT !.pBytes = pBytes, !.request = count,
                                                 !.count = count]
                  /\ hist' = HistCallPut(PutRecord(pBytes, "pending"))
                  /\ putStream' = IF hist.on THEN putStream \o pBytes ELSE putStream
                  /\ UNCHANGED ret
          /\ UNCHANGED <<bufVars, takenStream, consumerVars>>

\* line 72, and line 74 when the test holds
Put72 ==
    /\ pcPut = "L72"
    /\ IF PutOverruns(This, putFrame.count)
       THEN /\ putFrame' = [putFrame EXCEPT !.status = STATUS_BUFFER_OVERFLOW]
            /\ pcPut' = "L75"
       ELSE /\ pcPut' = "L78"
            /\ UNCHANGED putFrame
    /\ UNCHANGED <<bufVars, ret, putStream, takenStream, consumerVars, hist>>

\* line 75
Put75 ==
    /\ pcPut = "L75"
    /\ m_LinearBufferReadPosition' = OverrunReadPosition(This, putFrame.count)
    /\ pcPut' = "L78"
    /\ UNCHANGED <<m_Buffer, m_BufferLength, m_IsFilling, m_LinearBufferWritePosition,
                   putFrame, ret, putStream, takenStream, consumerVars, hist>>

\* lines 78-79
Put78 ==
    /\ pcPut = "L78"
    /\ putFrame' = [putFrame EXCEPT
                      !.bufferOffset = m_LinearBufferWritePosition % m_BufferLength,
                      !.bytes = 0]
    /\ pcPut' = "L80"
    /\ UNCHANGED <<bufVars, ret, putStream, takenStream, consumerVars, hist>>

\* one iteration of the loop of lines 80-87, and the loop test after it
Put80 ==
    /\ pcPut = "L80"
    /\ LET f == PutRun([buf |-> m_Buffer, bufferOffset |-> putFrame.bufferOffset,
                        count |-> putFrame.count, bytesWritten |-> putFrame.bytes],
                       putFrame.pBytes, m_BufferLength)
       IN  /\ m_Buffer' = f.buf
           /\ putFrame' = [putFrame EXCEPT !.bufferOffset = f.bufferOffset,
                                           !.count = f.count, !.bytes = f.bytesWritten]
           /\ pcPut' = IF f.count > 0 THEN "L80" ELSE "L88"
    /\ UNCHANGED <<m_BufferLength, m_IsFilling, m_LinearBufferReadPosition,
                   m_LinearBufferWritePosition,
                   ret, putStream, takenStream, consumerVars, hist>>

\* line 88
Put88 ==
    /\ pcPut = "L88"
    /\ m_LinearBufferWritePosition' = Mod64(m_LinearBufferWritePosition + putFrame.bytes)
    /\ pcPut' = "L90"
    /\ UNCHANGED <<m_Buffer, m_BufferLength, m_IsFilling, m_LinearBufferReadPosition,
                   putFrame, ret, putStream, takenStream, consumerVars, hist>>

\* line 90, and the return of line 95 when the test fails
Put90 ==
    /\ pcPut = "L90"
    /\ IF PutFilled(This)
       THEN /\ pcPut' = "L93"
            /\ UNCHANGED <<putFrame, ret, hist>>
       ELSE /\ PutReturns(putFrame.pBytes, putFrame.status)
            /\ hist' = HistReturnPut(putFrame.status)
    /\ UNCHANGED <<bufVars, putStream, takenStream, consumerVars>>

\* lines 93-95
Put93 ==
    /\ pcPut = "L93"
    /\ m_IsFilling' = FALSE
    /\ PutReturns(putFrame.pBytes, putFrame.status)
    /\ hist' = HistReturnPut(putFrame.status)
    /\ UNCHANGED <<m_Buffer, m_BufferLength, m_LinearBufferReadPosition,
                   m_LinearBufferWritePosition, putStream, takenStream, consumerVars>>

(* ------------------------------ Take ----------------------------------- *)
\* a variant of the return that does not release the lock
TakeReturns_KeepsLock(status, readCount, target) ==
    /\ pcTake' = "idle"
    /\ takeFrame' = NoFrame
    /\ UNCHANGED <<m_BufferLock, ret>>
    /\ takenStream' = IF hist.on THEN takenStream \o target ELSE takenStream
    /\ hist' = HistReturnTake(status, readCount, target)

\* lines 107-109 and 123-135: the results, and KeReleaseSpinLock
TakeReturns(status, readCount, target) ==
    /\ pcTake' = "idle"
    /\ takeFrame' = NoFrame
    /\ m_BufferLock' = "free"
    /\ UNCHANGED ret
    /\ takenStream' = IF hist.on THEN takenStream \o target ELSE takenStream
    /\ hist' = HistReturnTake(status, readCount, target)

\* the call; the consumer passes a readCount pointer
TakeCall ==
    \E count \in TakeArgs(m_BufferLength) :
        /\ pcTake = "idle"
        /\ m_LinearBufferReadPosition <= ConcMaxPos
        /\ pcTake' = "L100"
        /\ takeFrame' = [NoFrame EXCEPT !.request = count, !.count = count,
                                        !.wantCount = TRUE]
        /\ hist' = HistCallTake(TakeRecord(count, TRUE, "pending", <<>>, <<>>))
        /\ UNCHANGED <<bufVars, ret, putStream, takenStream, m_BufferLock, producerVars>>

\* line 100: KeAcquireSpinLock spins until the lock is free
Take100 ==
    /\ pcTake = "L100"
    /\ m_BufferLock = "free"
    /\ m_BufferLock' = "held"
    /\ pcTake' = "L102"
    /\ UNCHANGED <<bufVars, ret, putStream, takenStream, takeFrame, producerVars, hist>>

\* lines 102-110
Take102 ==
    /\ pcTake = "L102"
    /\ IF TakeGateClosed(This)
       THEN TakeReturns(STATUS_DEVICE_NOT_READY,
                        IF takeFrame.wantCount THEN <<0>> ELSE <<>>, <<>>)
       ELSE /\ pcTake' = "L112"
            /\ UNCHANGED <<ret, takenStream, takeFrame, m_BufferLock, hist>>
    /\ UNCHANGED <<bufVars, putStream, producerVars>>

\* line 112
Take112 ==
    /\ pcTake = "L112"
    /\ takeFrame' = [takeFrame EXCEPT !.count = TakeClamp(This, takeFrame.count)]
    /\ pcTake' = "L113"
    /\ UNCHANGED <<bufVars, ret, putStream, takenStream, m_BufferLock, producerVars, hist>>

\* lines 113-114, and the first loop test
Take113 ==
    /\ pcTake = "L113"
    /\ takeFrame' = [takeFrame EXCEPT !.bufferOffset = TakeOffset(This), !.bytes = 0]
    /\ pcTake' = IF takeFrame.count > 0 THEN "L115" ELSE "L123"
    /\ UNCHANGED <<bufVars, ret, putStream, takenStream, m_BufferLock, producerVars, hist>>

\* one iteration of the loop of lines 115-122, and the loop test after it
Take115 ==
    /\ pcTake = "L115"
    /\ LET f == TakeRun([target |-> takeFrame.target,
                         bufferOffset |-> takeFrame.bufferOffset,
                         count |-> takeFrame.count, bytesRead |-> takeFrame.bytes],
                        m_Buffer, m_BufferLength)
       IN  /\ takeFrame' = [takeFrame EXCEPT !.target = f.target,
                                             !.bufferOffset = f.bufferOffset,
                                             !.count = f.count, !.bytes = f.bytesRead]
           /\ pcTake' = IF f.count > 0 THEN "L115" ELSE "L123"
    /\ UNCHANGED <<bufVars, ret, putStream, takenStream, m_BufferLock, producerVars, hist>>

\* lines 123-127, up to the load of m_LinearBufferReadPosition by +=
Take123 ==
    /\ pcTake = "L123"
    /\ takeFrame' = [takeFrame EXCEPT !.pos = m_LinearBufferReadPosition]
    /\ pcTake' = "L127"
    /\ UNCHANGED <<bufVars, ret, putStream, takenStream, m_BufferLock, producerVars, hist>>

\* line 127: the store of +=
Take127 ==
    /\ pcTake = "L127"
    /\ m_LinearBufferReadPosition' = Mod64(takeFrame.pos + takeFrame.bytes)
    /\ pcTake' = "L128"
    /\ UNCHANGED <<m_Buffer, m_BufferLength, m_IsFilling, m_LinearBufferWritePosition,
                   ret, putStream, takenStream, takeFrame, m_BufferLock,
                   producerVars, hist>>

\* line 128
Take128 ==
    /\ pcTake = "L128"
    /\ pcTake' = IF TakeEmptied(This) THEN "L131" ELSE "L134"
    /\ UNCHANGED <<bufVars, ret, putStream, takenStream, takeFrame, m_BufferLock,
                   producerVars, hist>>

\* line 131
Take131 ==
    /\ pcTake = "L131"
    /\ m_IsFilling' = TRUE
    /\ pcTake' = "L134"
    /\ UNCHANGED <<m_Buffer, m_BufferLength, m_LinearBufferReadPosition,
                   m_LinearBufferWritePosition,
                   ret, putStream, takenStream, takeFrame, m_BufferLock,
                   producerVars, hist>>

\* lines 134-135
Take134 ==
    /\ pcTake = "L134"
    /\ TakeReturns(STATUS_SUCCESS,
                   IF takeFrame.wantCount THEN <<takeFrame.bytes>> ELSE <<>>,
                   takeFrame.target)
    /\ UNCHANGED <<bufVars, putStream, producerVars>>

PutStep == PutCall \/ Put72 \/ Put75 \/ Put78 \/ Put80 \/ Put88 \/ Put90 \/ Put93

TakeStep == TakeCall \/ Take100 \/ Take102 \/ Take112 \/ Take113 \/ Take115
              \/ Take123 \/ Take127 \/ Take128 \/ Take131 \/ Take134

ConcNext == PutStep \/ TakeStep

ConcSpec == ConcInit /\ [][ConcNext]_vars

(***************************************************************************)
(* The two contexts under fair scheduling (FairSpec), the history          *)
(* variables not kept.  A context that is inside a call takes its next     *)
(* step eventually; neither context is obliged to make another call.       *)
(* Take100 is the only acquisition of m_BufferLock in the two contexts, so *)
(* weak fairness of the consumer covers the spin of KeAcquireSpinLock.     *)
(***************************************************************************)
FairInit ==
    \E bufferSize \in 1..ConcMaxCap :
      \E fresh \in [0..bufferSize-1 -> Byte] :
        /\ m_Buffer = InitOp(Constructed, bufferSize, fresh).m_Buffer
        /\ m_BufferLength = InitOp(Constructed, bufferSize, fresh).m_BufferLength
        /\ m_IsFilling = InitOp(Constructed, bufferSize, fresh).m_IsFilling
        /\ m_LinearBufferReadPosition =
             InitOp(Constructed, bufferSize, fresh).m_LinearBufferReadPosition
        /\ m_LinearBufferWritePosition =
             InitOp(Constructed, bufferSize, fresh).m_LinearBufferWritePosition
        /\ ret = Returned("Init", bufferSize, <<>>, STATUS_SUCCESS, <<>>, <<>>)
        /\ putStream = <<>>
        /\ takenStream = <<>>
        /\ m_BufferLock = "free"
        /\ pcPut = "idle" /\ putFrame = NoFrame
        /\ pcTake = "idle" /\ takeFrame = NoFrame
        /\ hist = Unrecorded

\* the steps of a Put that has been called
PutRuns == Put72 \/ Put75 \/ Put78 \/ Put80 \/ Put88 \/ Put90 \/ Put93

\* the steps of a Take that has been called
TakeRuns == Take100 \/ Take102 \/ Take112 \/ Take113 \/ Take115
              \/ Take123 \/ Take127 \/ Take128 \/ Take131 \/ Take134

FairSpec ==
    FairInit /\ [][ConcNext]_vars /\ WF_vars(PutRuns) /\ WF_vars(TakeRuns)

(***************************************************************************)
(* Properties of the calls made one at a time (Spec).  A step of Spec is   *)
(* one whole call; ret' names the call and carries its arguments and       *)
(* results, the unprimed fields are the object before the call.            *)
(***************************************************************************)
IsPut == ret'.op = "Put"
IsTake == ret'.op = "Take"

\* the unread bytes in the order Take would deliver them
Readable(b) ==
    [k \in 1..Unread(b) |->
        b.m_Buffer[(b.m_LinearBufferReadPosition + k - 1) % b.m_BufferLength]]

\* the last n elements of s
Newest(s, n) == SubSeq(s, Len(s) - n + 1, Len(s))

\* C1: on a freshly initialised buffer, as long as no more bytes have been put
\* than the capacity, everything the Takes have delivered is the beginning of
\* what was put, in the order it was put, and the read position counts it.
C1_FifoWithinCapacity ==
    Len(putStream) <= m_BufferLength =>
        /\ Len(takenStream) <= Len(putStream)
        /\ takenStream = SubSeq(putStream, 1, Len(takenStream))
        /\ m_LinearBufferReadPosition = Len(takenStream)

\* a Take has delivered bytes of both values while no more than the capacity was put
C1_Witness ==
    /\ ret.op = "Take" /\ ret.status = STATUS_SUCCESS
    /\ Len(ret.target) >= 2 /\ ret.target[1] # ret.target[2]
    /\ Len(putStream) <= m_BufferLength

\* C2: after a Put of 0 < count <= capacity bytes at write position w,
\* storage[(w + i) mod capacity] is the caller's i-th byte for every i < count,
\* also when the write wraps across the end of storage.
C2_PutStoresCallerBytes ==
    [][(IsPut /\ 0 < ret'.count /\ ret'.count <= m_BufferLength) =>
          \A i \in 0..(ret'.count - 1) :
              m_Buffer'[(m_LinearBufferWritePosition + i) % m_BufferLength]
                  = ret'.pBytes[i + 1]]_vars

\* C5: a Put of 0 < count <= capacity bytes returns BufferOverflow exactly
\* when (writePos + count) - readPos > capacity held before the call and
\* Success otherwise; it advances writePos by count; on overflow readPos
\* becomes (old writePos + count) - capacity + 1 and capacity - 1 bytes are
\* unread afterwards.
C5_PutOverflowContract ==
    [][(IsPut /\ 0 < ret'.count /\ ret'.count <= m_BufferLength) =>
          LET over == (m_LinearBufferWritePosition + ret'.count)
                          - m_LinearBufferReadPosition > m_BufferLength
          IN  /\ ret'.status = IF over THEN STATUS_BUFFER_OVERFLOW ELSE STATUS_SUCCESS
              /\ m_LinearBufferWritePosition' = m_LinearBufferWritePosition + ret'.count
              /\ over =>
                   /\ m_LinearBufferReadPosition' =
                        (m_LinearBufferWritePosition + ret'.count) - m_BufferLength + 1
                   /\ m_LinearBufferWritePosition' - m_LinearBufferReadPosition'
                        = m_BufferLength - 1]_vars

\* a Put has overflowed a buffer of capacity at least 2
C5_Witness ==
    /\ ret.op = "Put" /\ ret.status = STATUS_BUFFER_OVERFLOW
    /\ m_BufferLength >= 2
    /\ Unread(This) = m_BufferLength - 1

\* C6: after a Put that returned BufferOverflow, the unread content, in the
\* order Take delivers it, is the newest capacity - 1 bytes of everything put
\* so far.
C6_OverflowKeepsNewest ==
    (ret.op = "Put" /\ ret.status = STATUS_BUFFER_OVERFLOW) =>
        Readable(This) = Newest(putStream, m_BufferLength - 1)

\* C7: a Put of more bytes than the capacity returns BufferTooSmall and
\* changes no field and no byte of storage, so GetAvailableBytes is unchanged.
C7_PutTooLargeRejected ==
    [][(IsPut /\ ret'.count > m_BufferLength) =>
          /\ ret'.status = STATUS_BUFFER_TOO_SMALL
          /\ UNCHANGED bufVars
          /\ GetAvailableBytes(This)' = GetAvailableBytes(This)]_vars

\* a Put was rejected while the gate was open with bytes unread
C7_Witness ==
    /\ ret.op = "Put" /\ ret.status = STATUS_BUFFER_TOO_SMALL
    /\ ~m_IsFilling /\ GetAvailableBytes(This) >= 2

\* a fresh buffer of 100 bytes after a Put of n bytes
Fresh100Put(n) ==
    PutOp(InitOp(Constructed, 100, [i \in 0..99 |-> 0]), [k \in 1..n |-> 1], n).b

\* 50 bytes leave a fresh 100-byte buffer filling, 60 bytes open it
C8_Example100 ==
    /\ Fresh100Put(50).m_IsFilling
    /\ GetAvailableBytes(Fresh100Put(50)) = 0
    /\ TakeOp(Fresh100Put(50), 1, TRUE).status = STATUS_DEVICE_NOT_READY
    /\ ~Fresh100Put(60).m_IsFilling
    /\ GetAvailableBytes(Fresh100Put(60)) = 60
    /\ TakeOp(Fresh100Put(60), 1, TRUE).status = STATUS_SUCCESS

\* C8: after an accepted Put of count > 0 bytes the gate is open exactly when
\* it was open before or the unread bytes after the Put exceed capacity / 2;
\* GetAvailableBytes is then the unread count, and 0 while the gate is closed.
\* On a fresh buffer of 100 bytes, 50 bytes leave it filling and 60 open it.
C8_GateOpensAboveHalf ==
    [][/\ (IsPut /\ 0 < ret'.count /\ ret'.status # STATUS_BUFFER_TOO_SMALL) =>
            LET unreadAfter == m_LinearBufferWritePosition' - m_LinearBufferReadPosition'
            IN  /\ ~m_IsFilling' <=>
                      (~m_IsFilling \/ unreadAfter > m_BufferLength \div 2)
                /\ GetAvailableBytes(This)' = IF m_IsFilling' THEN 0 ELSE unreadAfter
       /\ C8_Example100]_vars

\* a fresh buffer of even capacity holds exactly half its capacity and is still filling
C8_Witness ==
    /\ ret.op = "Put" /\ ret.status = STATUS_SUCCESS
    /\ m_LinearBufferReadPosition = 0
    /\ m_LinearBufferWritePosition = ret.count
    /\ 2 * ret.count = m_BufferLength
    /\ m_IsFilling /\ GetAvailableBytes(This) = 0

\* C9: a Take that leaves 0 unread bytes closes the gate; while the gate is
\* closed every Take returns NotReady with 0 bytes and changes nothing; the
\* gate opens again only by a Put that leaves more than capacity / 2 unread.
C9_DrainRearmsGate ==
    [][/\ (IsTake /\ m_LinearBufferWritePosition' - m_LinearBufferReadPosition' = 0)
            => m_IsFilling'
       /\ (IsTake /\ m_IsFilling) =>
            /\ ret'.status = STATUS_DEVICE_NOT_READY
            /\ ret'.readCount \in {<<0>>, <<>>}
            /\ ret'.target = <<>>
            /\ UNCHANGED bufVars
       /\ (m_IsFilling /\ ~m_IsFilling') =>
            /\ IsPut
            /\ m_LinearBufferWritePosition' - m_LinearBufferReadPosition'
                 > m_BufferLength' \div 2]_vars

\* after a drain and a Put that stayed at or below half, a Take was turned away
C9_Witness ==
    /\ ret.op = "Take" /\ ret.status = STATUS_DEVICE_NOT_READY
    /\ Len(takenStream) > 0
    /\ m_LinearBufferReadPosition = Len(takenStream)
    /\ Unread(This) > 0

\* C10: with the gate open, Take(count) returns Success, delivers exactly
\* n = min(count, writePos - readPos) bytes, storage[(readPos + i) mod capacity]
\* for i < n in that order, reports n, advances readPos by n and leaves
\* writePos and storage unchanged.
C10_TakeDeliversClamped ==
    [][(IsTake /\ ~m_IsFilling) =>
          LET n == Min(ret'.count, m_LinearBufferWritePosition - m_LinearBufferReadPosition)
          IN  /\ ret'.status = STATUS_SUCCESS
              /\ ret'.target =
                   [k \in 1..n |->
                      m_Buffer[(m_LinearBufferReadPosition + k - 1) % m_BufferLength]]
              /\ ret'.readCount \in {<<n>>, <<>>}
              /\ m_LinearBufferReadPosition' = m_LinearBufferReadPosition + n
              /\ UNCHANGED <<m_LinearBufferWritePosition, m_Buffer, m_BufferLength>>]_vars

\* a Take asked for more than was unread and delivered the two bytes there were
C10_Witness ==
    /\ ret.op = "Take" /\ ret.status = STATUS_SUCCESS
    /\ ret.count > Len(ret.target) /\ Len(ret.target) >= 2
    /\ ret.readCount = <<Len(ret.target)>>

\* C11: while the gate is closed, Take returns NotReady, reports 0 bytes read,
\* copies nothing to the target and changes none of writePos, readPos,
\* isFilling and storage, whatever count is asked for and however many bytes
\* are unread.
C11_ClosedGateTakeIsNoOp ==
    [][(IsTake /\ m_IsFilling) =>
          /\ ret'.status = STATUS_DEVICE_NOT_READY
          /\ ret'.readCount \in {<<0>>, <<>>}
          /\ ret'.target = <<>>
          /\ UNCHANGED <<m_LinearBufferWritePosition, m_LinearBufferReadPosition,
                         m_IsFilling, m_Buffer>>]_vars

\* a Take that asked for more than the capacity was turned away with bytes unread
C11_Witness ==
    /\ ret.op = "Take" /\ ret.status = STATUS_DEVICE_NOT_READY
    /\ ret.readCount = <<0>>
    /\ ret.count > m_BufferLength
    /\ m_IsFilling /\ Unread(This) >= 1

\* C12: after every successful Init(C), whatever the state before, the capacity
\* is C, writePos = readPos = 0, the gate is closed, GetAvailableBytes is 0 and
\* the next Take returns NotReady.
C12_InitResets ==
    [][(ret'.op = "Init" /\ ret'.status = STATUS_SUCCESS) =>
          /\ GetSize(This)' = ret'.count
          /\ m_LinearBufferWritePosition' = 0
          /\ m_LinearBufferReadPosition' = 0
          /\ m_IsFilling'
          /\ GetAvailableBytes(This)' = 0
          /\ \A count \in TakeArgs(MaxCap), wantCount \in BOOLEAN :
                TakeOp(This, count, wantCount)'.status = STATUS_DEVICE_NOT_READY]_vars

\* Init has returned Success for a capacity of at least 2, the new storage
\* holding whatever the pool held
C12_Witness ==
    /\ ret.op = "Init" /\ ret.status = STATUS_SUCCESS
    /\ ret.count >= 2 /\ GetSize(This) = ret.count
    /\ m_Buffer[0] # m_Buffer[1]
    /\ GetAvailableBytes(This) = 0

\* C13: Clear on an initialised buffer sets writePos = readPos = 0, closes the
\* gate and zeroes every byte of storage, so GetAvailableBytes is 0 and the
\* next Take returns NotReady; the capacity is unchanged.
C13_ClearResets ==
    [][ret'.op = "Clear" =>
          /\ m_LinearBufferWritePosition' = 0
          /\ m_LinearBufferReadPosition' = 0
          /\ m_IsFilling'
          /\ DOMAIN m_Buffer' = 0..(m_BufferLength - 1)
          /\ \A i \in DOMAIN m_Buffer' : m_Buffer'[i] = 0
          /\ GetAvailableBytes(This)' = 0
          /\ \A count \in TakeArgs(MaxCap), wantCount \in BOOLEAN :
                TakeOp(This, count, wantCount)'.status = STATUS_DEVICE_NOT_READY
          /\ m_BufferLength' = m_BufferLength]_vars

\* Clear has returned on a buffer of capacity at least 2
C13_Witness ==
    /\ ret.op = "Clear"
    /\ m_BufferLength >= 2
    /\ m_IsFilling /\ m_LinearBufferWritePosition = 0
    /\ \A i \in DOMAIN m_Buffer : m_Buffer[i] = 0

\* C17: after every call of a sequence of Init/Put/Take/Clear made one at a
\* time, for every capacity >= 1, readPos <= writePos and
\* writePos - readPos <= capacity; and neither position decreases across a Put
\* or a Take.
C17_PositionsOrdered ==
    [][/\ m_LinearBufferReadPosition' <= m_LinearBufferWritePosition'
       /\ m_LinearBufferWritePosition' - m_LinearBufferReadPosition' <= m_BufferLength'
       /\ (IsPut \/ IsTake) =>
            /\ m_LinearBufferReadPosition' >= m_LinearBufferReadPosition
            /\ m_LinearBufferWritePosition' >= m_LinearBufferWritePosition]_vars

\* a Take has drained a buffer whose positions have passed the capacity
C17_Witness ==
    /\ ret.op = "Take" /\ ret.status = STATUS_SUCCESS /\ Len(ret.target) >= 1
    /\ m_BufferLength >= 2
    /\ m_LinearBufferReadPosition = m_LinearBufferWritePosition
    /\ m_LinearBufferReadPosition > m_BufferLength

\* C18: after every call of a sequence of Put/Take/Clear on an initialised
\* buffer, for every capacity >= 1, the gate is closed whenever no byte is
\* unread, also when the unread count reached 0 through an overflowing Put.
C18_EmptyMeansFilling ==
    Unread(This) = 0 => m_IsFilling

\* C19: while the producer keeps calling Put with 1 <= count <= capacity, a
\* closed gate opens after finitely many Puts, also when the Puts overflow.
\* So no such Put leaves the gate closed and the buffer as it found it (the
\* same unread count at the same offset in storage): the same Put would
\* leave it so every time.
C19_PutsOpenGate ==
    [][(IsPut /\ 0 < ret'.count /\ ret'.count <= m_BufferLength
          /\ m_IsFilling /\ m_IsFilling') =>
            ~ /\ Unread(This)' = Unread(This)
              /\ m_LinearBufferWritePosition' % m_BufferLength
                   = m_LinearBufferWritePosition % m_BufferLength]_vars

(***************************************************************************)
(* Properties of the calls when the allocation may fail (AllocSpec).       *)
(***************************************************************************)
\* C14: when the allocation of the storage fails, Init returns the
\* out-of-resources status and leaves the buffer uninitialised, with no
\* storage and capacity 0, also when it re-initialises a buffer that had a
\* capacity C > 0 and data outstanding.
C14_FailedInitUninitialised ==
    [][(ret'.op = "Init" /\ ret'.status = STATUS_INSUFFICIENT_RESOURCES) =>
          /\ m_Buffer' = NULL
          /\ GetSize(This)' = 0]_vars

\* C15: Put(_, 0) returns Success in every state, initialised or not, filling
\* or not, full or not, and changes none of writePos, readPos, isFilling and
\* storage.
C15_PutNothing ==
    [][(IsPut /\ ret'.count = 0) =>
          /\ ret'.status = STATUS_SUCCESS
          /\ UNCHANGED <<m_LinearBufferWritePosition, m_LinearBufferReadPosition,
                         m_IsFilling, m_Buffer>>]_vars

\* Put(_, 0) has returned on a full buffer with the gate open
C15_Witness ==
    /\ ret.op = "Put" /\ ret.count = 0 /\ ret.status = STATUS_SUCCESS
    /\ m_Buffer # NULL
    /\ ~m_IsFilling /\ Unread(This) = m_BufferLength

\* C20: whatever Init calls, succeeding or failing on allocation, came before,
\* no Put, Take or Clear copies into, out of, or zeroes storage while there is
\* none: with m_Buffer = NULL a Put of count > 0 is rejected, Take returns
\* NotReady and Clear touches no byte.
C20_NoAccessWithoutStorage ==
    [][m_Buffer = NULL =>
          /\ (IsPut /\ ret'.count > 0) => ret'.status = STATUS_BUFFER_TOO_SMALL
          /\ IsTake => ret'.status = STATUS_DEVICE_NOT_READY
          /\ ret'.status # BUGCHECK]_vars

(***************************************************************************)
(* Properties of the two contexts (ConcSpec).                              *)
(***************************************************************************)
\* the outcome of running a call alone on the fields s.b
SerialPut(s, p) ==
    LET r == PutOp(s.b, p.pBytes, Len(p.pBytes))
    IN  [b |-> r.b, put |-> <<PutRecord(p.pBytes, r.status)>>, take |-> s.take]

SerialTake(s, t) ==
    LET r == TakeOp(s.b, t.count, t.wantCount)
    IN  [b |-> r.b, put |-> s.put,
         take |-> <<TakeRecord(t.count, t.wantCount, r.status, r.readCount, r.target)>>]

\* the outcomes of the serial orders of the calls of the round h
SerialOutcomes(h) ==
    LET start == [b |-> h.base, put |-> <<>>, take |-> <<>>]
    IN  IF h.take = <<>> THEN {SerialPut(start, h.put[1])}
        ELSE IF h.put = <<>> THEN {SerialTake(start, h.take[1])}
        ELSE {SerialTake(SerialPut(start, h.put[1]), h.take[1]),
              SerialPut(SerialTake(start, h.take[1]), h.put[1])}

Quiescent == pcPut = "idle" /\ pcTake = "idle"

\* C3: when a Put and a Take that ran concurrently have both returned, the
\* fields, the storage, the statuses and the delivered bytes are those of the
\* Put followed by the Take or of the Take followed by the Put, run one after
\* the other from the fields the round started with.
C3_CallsAreAtomic ==
    (Quiescent /\ hist.ok) =>
        [b |-> This, put |-> hist.put, take |-> hist.take] \in SerialOutcomes(hist)

\* s is t with some elements left out
RECURSIVE IsSubsequence(_, _)
IsSubsequence(s, t) ==
    IF s = <<>> THEN TRUE
    ELSE IF t = <<>> THEN FALSE
    ELSE IF Head(s) = Head(t) THEN IsSubsequence(Tail(s), Tail(t))
    ELSE IsSubsequence(s, Tail(t))

\* C4: with Put and Take running concurrently, the bytes delivered so far are
\* bytes that were put, each delivered at most once, in the order they were
\* put, and the read position has not passed the write position when no call
\* is running.
C4_NoCorruption ==
    /\ IsSubsequence(takenStream, putStream)
    /\ Quiescent => m_LinearBufferReadPosition <= m_LinearBufferWritePosition

(***************************************************************************)
(* Properties of the two contexts under fair scheduling (FairSpec).        *)
(***************************************************************************)
\* C16: with Put running in one context and Take in another, both scheduled
\* fairly, every Put and every Take that has been called returns, and a Take
\* that holds the lock is never held up: it has a step to take whatever the
\* buffer holds.
C16_CallsReturn ==
    /\ (pcPut # "idle") ~> (pcPut = "idle")
    /\ (pcTake # "idle") ~> (pcTake = "idle")
    /\ [](pcTake \notin {"idle", "L100"} => ENABLED TakeRuns)

\* a Put is in its copy loop while a Take, holding the lock, is in its own
C16_Witness ==
    /\ pcPut = "L80" /\ pcTake = "L115"
    /\ m_BufferLock = "held"
    /\ ~hist.on

=============================================================================
